---- MODULE Spec2Model ----
(***************************************************************************)
(* Trading State & Analytics Engine of the OMS client.                     *)
(*                                                                         *)
(* The Dashboard page mounts three things that share state:                *)
(*   - the OrderBook component (src/src/components/OrderBook.tsx), which   *)
(*     owns its snapshot / loading / error slots and a 60 s interval;      *)
(*   - the dashboard-stats poller (Dashboard effect + store);              *)
(*   - the TradeForm (src/unnamed/part_002) on top of the trading store    *)
(*     (src/unnamed/part_001).                                             *)
(*                                                                         *)
(* JavaScript null is the empty set and a present value v is {v}.          *)
(* Requests carry a sequence number (id): the code has none, it is kept    *)
(* here only to tell the requests apart and to state the claims.           *)
(***************************************************************************)
EXTENDS Integers, FiniteSets, Sequences, TLC

VARIABLES
    \* Dashboard component state (Signup.tsx:181-182)
    selectedSymbol, currentPrice,
    \* OrderBook component state (OrderBook.tsx:32-34)
    orderBook, obLoading, obError,
    \* GET /orderbook/{symbol} requests awaiting their response
    inflight,
    \* live setInterval handles and the handle the current cleanup clears
    timers, obInterval,
    \* number of order-book requests issued so far
    reqSeq,
    \* history: last order-book response handled, fetches and ticks of the
    \* current watch
    obHandled, watchFetches, watchTicks,
    \* trading store slots (part_001:94-103)
    isLoading, error, lastOrder, dashboardStats,
    \* GET /me/stats requests awaiting their response
    statsInflight,
    \* TradeForm state (part_002:11-14)
    side, type, quantity, limitPrice,
    \* POST /trade/ requests awaiting their response, number issued
    posts, postCount,
    \* history: handleSubmit invocations and how the last one ended
    submitCalls, submitOutcome, lastFailure,
    \* which of the repository's two copies of the trading store is bundled
    storeModule,
    \* trading store slots read by Analytics (part_001:100-101)
    trades, stats,
    \* Analytics component state (Analytics.tsx:33)
    anSymbol,
    \* GET /me/orders and GET /me/analytics requests awaiting their response
    anInflight,
    \* history: the requests of the current mount that failed
    anFailed,
    \* what the last render of Analytics computed and showed
    anView,
    \* the snapshot OrderBook renders with its price levels, and what the
    \* render returned
    book, bookView,
    \* the route shown, the live 30 s interval of Dashboard, page changes so
    \* far, the POSTs awaited by the mounted TradeForm
    page, statsTimer, navCount, formPosts,
    \* localStorage "token", useAuthStore.token, and the requests that went
    \* through apiClient with the Authorization header they carried
    lsToken, authToken, sent

obVars == <<selectedSymbol, currentPrice, orderBook, obLoading, obError,
            inflight, timers, obInterval, reqSeq, obHandled, watchFetches,
            watchTicks>>
storeVars == <<isLoading, error, lastOrder>>
statsVars == <<dashboardStats, statsInflight>>
formVars == <<side, type, quantity, limitPrice>>
tradeVars == <<posts, postCount, submitCalls, submitOutcome, lastFailure>>
anVars == <<storeModule, trades, stats, anSymbol, anInflight, anFailed, anView>>
bookVars == <<book, bookView>>
navVars == <<page, statsTimer, navCount, formPosts>>
authVars == <<lsToken, authToken, sent>>
extVars == <<bookVars, navVars, authVars>>
vars == <<obVars, storeVars, statsVars, formVars, tradeVars, anVars, extVars>>

----------------------------------------------------------------------------
(* Bounds                                                                  *)

\* order-book requests the page-side events may issue
MaxReq == 4
\* mid prices the venue may report are 1..MaxMid
MaxMid == 2
\* outstanding GET /me/stats requests
MaxStats == 1
\* handleSubmit invocations
MaxSubmits == 2

----------------------------------------------------------------------------
(* Values                                                                  *)

SYMBOLS == {"BTC-USD", "ETH-USD", "SOL-USD"}

Null == {}

\* JavaScript values: a number, NaN, undefined, and the JSON null
Num(n) == [t |-> "number", v |-> n]

NaN == [t |-> "NaN", v |-> 0]

Undefined == [t |-> "undefined", v |-> 0]

JsonNull == [t |-> "null", v |-> 0]

Mids == 1..MaxMid

Req(i, s) == [id |-> i, symbol |-> s]

\* the venue answers GET /orderbook/{symbol} with a snapshot of that symbol
Snapshots(r) == {[symbol |-> r.symbol, mid |-> m] : m \in Mids}

\* the store of src/unnamed/part_001 and its copy in src/src/pages/Signup.tsx
StoreModules == {"part_001", "Signup.tsx"}

StatsData == {[open_orders |-> 0, portfolio_value |-> 0],
              [open_orders |-> 1, portfolio_value |-> 5]}

----------------------------------------------------------------------------
(* OrderBook component                                                     *)

\* clearInterval(interval) in the effect's cleanup, with everything kept
ClearIntervalLeak(ts, h) == ts

\* clearInterval(interval) in the effect's cleanup
ClearInterval(ts, h) == ts \ {h}

\* The effect of OrderBook: React runs the previous cleanup, then the body:
\* fetchOrderBook() sets loading, clears the error and issues the request,
\* and setInterval registers a new handle. inf is the set of requests still
\* awaited when the effect runs.
OrderBookEffect(sym, inf) ==
    /\ reqSeq' = reqSeq + 1
    /\ inflight' = inf \cup {Req(reqSeq + 1, sym)}
    /\ timers' = ClearInterval(timers, obInterval) \cup {Req(reqSeq + 1, sym)}
    /\ obInterval' = Req(reqSeq + 1, sym)
    /\ obLoading' = TRUE
    /\ obError' = ""

\* A render of Dashboard creates a new onDataReceived closure, so the
\* effect's dependency list [symbol, onDataReceived] differs and the effect
\* runs again for the same symbol.
DashboardRender ==
    /\ OrderBookEffect(selectedSymbol, inflight)
    /\ watchFetches' = watchFetches + 1
    /\ UNCHANGED <<selectedSymbol, currentPrice, orderBook, obHandled, watchTicks>>

\* What OrderBook renders (the chain of early returns)
ObView ==
    IF obLoading /\ orderBook = Null THEN "loading"
    ELSE IF obError # "" THEN "error"
    ELSE IF orderBook = Null THEN "nodata"
    ELSE "book"

\* click on a symbol tab: setSelectedSymbol(symbol); the same symbol is a
\* state update React bails out of
SelectSymbol(s) ==
    /\ page = "dashboard"
    /\ s # selectedSymbol
    /\ reqSeq < MaxReq
    /\ selectedSymbol' = s
    /\ OrderBookEffect(s, inflight)
    /\ watchFetches' = 1
    /\ watchTicks' = 0
    /\ UNCHANGED <<currentPrice, orderBook, obHandled>>
    /\ UNCHANGED <<storeVars, statsVars, formVars, tradeVars, anVars, extVars>>

\* the 60 s interval fires: fetchOrderBook of the closure that registered it
IntervalTick(t) ==
    /\ t \in timers
    /\ reqSeq < MaxReq
    /\ reqSeq' = reqSeq + 1
    /\ inflight' = inflight \cup {Req(reqSeq + 1, t.symbol)}
    /\ obLoading' = TRUE
    /\ obError' = ""
    /\ watchFetches' = watchFetches + 1
    /\ watchTicks' = watchTicks + 1
    /\ UNCHANGED <<selectedSymbol, currentPrice, orderBook, timers, obInterval, obHandled>>
    /\ UNCHANGED <<storeVars, statsVars, formVars, tradeVars, anVars, extVars>>

\* the awaited GET resolves: setOrderBook, onDataReceived (setCurrentPrice in
\* Dashboard), finally setIsLoading(false). A changed currentPrice renders
\* Dashboard again, which re-runs the effect.
FetchOrderBookResolve(r, data) ==
    /\ r \in inflight
    /\ data \in Snapshots(r)
    /\ orderBook' = {data}
    /\ currentPrice' = data.mid
    /\ obHandled' = [id |-> r.id, symbol |-> r.symbol, ok |-> TRUE]
    /\ IF data.mid # currentPrice
       THEN /\ reqSeq < MaxReq
            /\ OrderBookEffect(selectedSymbol, inflight \ {r})
            /\ watchFetches' = watchFetches + 1
       ELSE /\ inflight' = inflight \ {r}
            /\ obLoading' = FALSE
            /\ UNCHANGED <<obError, timers, obInterval, reqSeq, watchFetches>>
    /\ UNCHANGED <<selectedSymbol, watchTicks>>
    /\ UNCHANGED <<storeVars, statsVars, formVars, tradeVars, anVars, extVars>>

\* the awaited GET rejects: setError, finally setIsLoading(false)
FetchOrderBookReject(r) ==
    /\ r \in inflight
    /\ inflight' = inflight \ {r}
    /\ obError' = "Failed to fetch order book"
    /\ obLoading' = FALSE
    /\ obHandled' = [id |-> r.id, symbol |-> r.symbol, ok |-> FALSE]
    /\ UNCHANGED <<selectedSymbol, currentPrice, orderBook, timers, obInterval,
                   reqSeq, watchFetches, watchTicks>>
    /\ UNCHANGED <<storeVars, statsVars, formVars, tradeVars, anVars, extVars>>

----------------------------------------------------------------------------
(* Analytics page: statistics derived from the order history                *)
(* (src/src/pages/Analytics.tsx)                                            *)

\* longest short history enumerated
MaxLen == 2
\* long histories hold up to TrendWindow + MaxExtra FILLED records
MaxExtra == 2
\* long histories hold up to MaxPendingTail PENDING records
MaxPendingTail == 1

\* slice(-20): the number of points of the slippage trend
TrendWindow == 20

AN_SYMBOLS == {"BTC-USD", "ETH-USD"}
SIDES == {"BUY", "SELL"}

\* status, exec_qty and slippage_bps of a history record as the server sends
\* them: a PENDING record comes with or without execution data
TradeKinds ==
    { [status |-> "FILLED", exec_qty |-> Num(1), slippage_bps |-> Num(4)],
      [status |-> "FILLED", exec_qty |-> Num(2), slippage_bps |-> Num(6)],
      [status |-> "PENDING", exec_qty |-> Undefined, slippage_bps |-> Undefined],
      [status |-> "PENDING", exec_qty |-> Num(3), slippage_bps |-> Num(5)] }

\* time stands for exec_created_at || created_at
Trade(sym, sd, k, tm) ==
    [symbol |-> sym, side |-> sd, status |-> k.status, exec_qty |-> k.exec_qty,
     slippage_bps |-> k.slippage_bps, time |-> tm]

TradeShapes == AN_SYMBOLS \X SIDES \X TradeKinds

\* the server answers newest first or oldest first
Orders == {"newestFirst", "oldestFirst"}

Stamp(i, n, ord) == IF ord = "newestFirst" THEN n + 1 - i ELSE i

ShortHistories ==
    UNION { { [i \in 1..n |-> Trade(f[i][1], f[i][2], f[i][3], Stamp(i, n, "newestFirst"))] :
                f \in [1..n -> TradeShapes] } : n \in 0..MaxLen }

\* the history FILLED 4 bps, FILLED 6 bps, PENDING without execution data, in
\* any order, of any symbols and sides
ScenarioKinds ==
    { k \in [1..3 -> TradeKinds] :
        /\ \E i \in 1..3 : k[i].slippage_bps = Num(4)
        /\ \E i \in 1..3 : k[i].slippage_bps = Num(6)
        /\ \E i \in 1..3 : k[i].slippage_bps = Undefined }

ScenarioHistories ==
    { [i \in 1..3 |-> Trade(sy[i], sd[i], k[i], Stamp(i, 3, "oldestFirst"))] :
        sy \in [1..3 -> AN_SYMBOLS], sd \in [1..3 -> SIDES], k \in ScenarioKinds }

\* n FILLED records and p PENDING ones, the PENDING ones being the latest
LongHistory(n, p, ord) ==
    [i \in 1..(n + p) |->
        LET tm == Stamp(i, n + p, ord)
        IN  IF tm <= n
            THEN Trade("BTC-USD", IF tm % 2 = 0 THEN "BUY" ELSE "SELL",
                       IF tm % 3 = 0
                       THEN [status |-> "FILLED", exec_qty |-> Num(2), slippage_bps |-> Num(6)]
                       ELSE [status |-> "FILLED", exec_qty |-> Num(1), slippage_bps |-> Num(4)],
                       tm)
            ELSE Trade("ETH-USD", "BUY",
                       [status |-> "PENDING", exec_qty |-> Num(3), slippage_bps |-> Num(5)], tm)]

LongHistories ==
    { LongHistory(n, p, ord) : n \in (TrendWindow - 1)..(TrendWindow + MaxExtra),
                               p \in 0..MaxPendingTail, ord \in Orders }

Histories == ShortHistories \cup ScenarioHistories \cup LongHistories

\* x || 0 on a number or undefined
OrZero(x) == IF x.t = "number" /\ x.v # 0 THEN x.v ELSE 0

RECURSIVE SumSeq(_, _)
SumSeq(ts, field) ==
    IF ts = <<>> THEN 0 ELSE OrZero(Head(ts)[field]) + SumSeq(Tail(ts), field)

RoundHalfUp(a, b) ==
    IF a >= 0 THEN (2 * a + b) \div (2 * b) ELSE 0 - ((2 * (0 - a) + b) \div (2 * b))

\* (num / den).toFixed(digits), as the number of 10^-digits units; 0/0 is NaN
ToFixed(num, den, digits) ==
    IF den = 0 THEN NaN ELSE Num(RoundHalfUp(num * (10 ^ digits), den))

\* the literal '0' of the empty branches
ZeroText == Num(0)

Symbols(ts) == { ts[i].symbol : i \in DOMAIN ts }

FilteredTrades(ts, sel) ==
    IF sel # Null THEN SelectSeq(ts, LAMBDA t : {t.symbol} = sel) ELSE ts

FilledTradesAnyStatus(ts, sel) == FilteredTrades(ts, sel)

FilledTrades(ts, sel) ==
    SelectSeq(FilteredTrades(ts, sel), LAMBDA t : t.status = "FILLED")

TotalTradesUnfiltered(ts, sel) == Len(ts)

TotalTrades(ts, sel) == Len(FilteredTrades(ts, sel))

FillRateUnguarded(ts, sel) ==
    ToFixed(Len(FilledTrades(ts, sel)) * 100, Len(FilteredTrades(ts, sel)), 1)

FillRate(ts, sel) ==
    IF Len(FilteredTrades(ts, sel)) > 0
    THEN ToFixed(Len(FilledTrades(ts, sel)) * 100, Len(FilteredTrades(ts, sel)), 1)
    ELSE ZeroText

TotalQuantityAllTrades(ts, sel) ==
    ToFixed(SumSeq(FilteredTrades(ts, sel), "exec_qty"), 1, 4)

TotalQuantity(ts, sel) ==
    ToFixed(SumSeq(FilledTrades(ts, sel), "exec_qty"), 1, 4)

AvgSlippageAllTrades(ts, sel) ==
    IF Len(FilteredTrades(ts, sel)) > 0
    THEN ToFixed(SumSeq(FilteredTrades(ts, sel), "slippage_bps"),
                 Len(FilteredTrades(ts, sel)), 2)
    ELSE ZeroText

AvgSlippage(ts, sel) ==
    IF Len(FilledTrades(ts, sel)) > 0
    THEN ToFixed(SumSeq(FilledTrades(ts, sel), "slippage_bps"),
                 Len(FilledTrades(ts, sel)), 2)
    ELSE ZeroText

BuyTradesFilledOnly(ts, sel) ==
    Len(SelectSeq(FilledTrades(ts, sel), LAMBDA t : t.side = "BUY"))

BuyTrades(ts, sel) ==
    Len(SelectSeq(FilteredTrades(ts, sel), LAMBDA t : t.side = "BUY"))

SellTrades(ts, sel) ==
    Len(SelectSeq(FilteredTrades(ts, sel), LAMBDA t : t.side = "SELL"))

\* slice(-n)
SliceLast(s, n) == IF Len(s) > n THEN SubSeq(s, Len(s) - n + 1, Len(s)) ELSE s

Reverse(s) == [i \in 1..Len(s) |-> s[Len(s) + 1 - i]]

\* the window taken before the status filter
TrendTradesWindowFirst(ts, sel) ==
    Reverse(SelectSeq(SliceLast(FilteredTrades(ts, sel), TrendWindow),
                      LAMBDA t : t.status = "FILLED"))

\* the records behind the points of the slippage chart, left to right
TrendTrades(ts, sel) == Reverse(SliceLast(FilledTrades(ts, sel), TrendWindow))

ChartLabels(ts, sel) ==
    [i \in 1..Len(TrendTrades(ts, sel)) |-> TrendTrades(ts, sel)[i].time]

ChartData(ts, sel) ==
    [i \in 1..Len(TrendTrades(ts, sel)) |-> OrZero(TrendTrades(ts, sel)[i].slippage_bps)]

\* the stats_local object of one render
StatsLocal(ts, sel) ==
    [totalTrades |-> TotalTrades(ts, sel),
     fillRate |-> FillRate(ts, sel),
     totalQuantity |-> TotalQuantity(ts, sel),
     avgSlippage |-> AvgSlippage(ts, sel),
     buyTrades |-> BuyTrades(ts, sel),
     sellTrades |-> SellTrades(ts, sel)]

\* the stored history, when the slot holds one
History == CHOOSE h \in trades : TRUE

\* one render of Analytics: trades.map on a null slot throws before anything
\* is computed; otherwise the statistics and the chart are computed and one of
\* the three screens is returned
AnalyticsView(tr, sel, loading) ==
    IF tr = Null
    THEN [screen |-> "TypeError", stats |-> {}, labels |-> <<>>, data |-> <<>>]
    ELSE LET ts == CHOOSE h \in tr : TRUE
         IN  [screen |-> IF loading /\ Len(ts) = 0 THEN "loading"
                         ELSE IF Len(ts) = 0 THEN "empty" ELSE "stats",
              stats |-> {StatsLocal(ts, sel)},
              labels |-> ChartLabels(ts, sel),
              data |-> ChartData(ts, sel)]

\* every set of the store renders the page that is mounted: Dashboard and
\* Analytics both subscribe to the whole store. tr and loading are the
\* values of trades and isLoading after the set.
StoreRender(tr, loading) ==
    IF page = "dashboard" THEN DashboardRender /\ UNCHANGED anView
    ELSE IF page = "analytics"
         THEN anView' = {AnalyticsView(tr, anSymbol, loading)} /\ UNCHANGED obVars
    ELSE UNCHANGED <<obVars, anView>>

----------------------------------------------------------------------------
(* Dashboard summary poller                                                *)

\* the 30 s interval of Dashboard fires: fetchDashboardStats issues the GET
StatsTick ==
    /\ statsTimer
    /\ statsInflight < MaxStats
    /\ statsInflight' = statsInflight + 1
    /\ UNCHANGED <<dashboardStats, obVars, storeVars, formVars, tradeVars, anVars, extVars>>

\* GET /me/stats resolves: set({dashboardStats}); every set of the store
\* renders Dashboard, which subscribes to the whole store
FetchDashboardStatsResolve(d) ==
    /\ statsInflight > 0
    /\ statsInflight' = statsInflight - 1
    /\ dashboardStats' = {d}
    /\ IF page = "dashboard"
       THEN reqSeq < MaxReq /\ DashboardRender
       ELSE UNCHANGED obVars
    /\ UNCHANGED <<storeVars, formVars, tradeVars, anVars, extVars>>

\* a catch that gives up polling
StatsCatchStopsTimer(t) == FALSE

\* what the catch of fetchDashboardStats leaves of the interval: it only
\* logs, the interval stays as it is
StatsCatchTimer(t) == t

\* GET /me/stats rejects: console.error only
FetchDashboardStatsReject ==
    /\ statsInflight > 0
    /\ statsInflight' = statsInflight - 1
    /\ statsTimer' = StatsCatchTimer(statsTimer)
    /\ UNCHANGED <<dashboardStats, obVars, storeVars, formVars, tradeVars, anVars>>
    /\ UNCHANGED <<bookVars, authVars, page, navCount, formPosts>>

----------------------------------------------------------------------------
(* Order submission pipeline: TradeForm.handleSubmit and store.submitTrade  *)

\* what an <input type="number"> can hold as its value
QuantityInputs == {"", "0", "-1", "2"}

LimitPriceInputs == {"", "0", "-5", "7"}

\* parseFloat on the strings above
ParseFloat(s) ==
    CASE s = "" -> NaN
      [] s = "0" -> Num(0)
      [] s = "-1" -> Num(-1)
      [] s = "-5" -> Num(-5)
      [] s = "2" -> Num(2)
      [] s = "7" -> Num(7)

\* x <= 0 in JavaScript: false for NaN
LeqZero(x) == x.t = "number" /\ x.v <= 0

\* JSON.stringify of a body field: undefined is dropped, NaN becomes null
ToJson(x) == IF x.t = "NaN" THEN JsonNull ELSE x

\* the check of handleSubmit with the comparison lost
QuantityInvalidEmptyOnly(q) == q = ""

\* !quantity || parseFloat(quantity) <= 0
QuantityInvalid(q) == q = "" \/ LeqZero(ParseFloat(q))

\* the inputs marked required hold a value (the browser fires no submit
\* event otherwise); the limit price input exists only for LIMIT
RequiredFilled == quantity # "" /\ (type = "LIMIT" => limitPrice # "")

\* the TradeRequest handleSubmit builds
TradeRequest ==
    [symbol |-> selectedSymbol,
     side |-> side,
     type |-> type,
     quantity |-> ToJson(ParseFloat(quantity)),
     limit_price |-> IF type = "LIMIT" THEN ToJson(ParseFloat(limitPrice)) ELSE Undefined]

\* the records the venue may answer POST /trade/ with: filled, pending with
\* zero-valued execution fields, pending with the execution fields absent
OrderResponses(body) ==
    {[symbol |-> body.symbol, status |-> "FILLED", exec_price |-> Num(3), slippage |-> Num(1)],
     [symbol |-> body.symbol, status |-> "PENDING", exec_price |-> Num(0), slippage |-> Num(0)],
     [symbol |-> body.symbol, status |-> "PENDING", exec_price |-> Undefined, slippage |-> Undefined]}

\* the ways POST /trade/ fails: data is err.response?.data ("" when there is
\* no response or an empty body), message is err.message
Failures ==
    {[data |-> "insufficient balance", message |-> "Request failed with status code 400"],
     [data |-> "", message |-> "Network Error"],
     [data |-> "", message |-> ""]}

\* the catch of submitTrade preferring err.message
SubmitErrorMsgMessageFirst(err) ==
    IF err.message # "" THEN err.message
    ELSE IF err.data # "" THEN err.data
    ELSE "Trade submission failed"

\* err.response?.data || err.message || "Trade submission failed"
SubmitErrorMsg(err) ==
    IF err.data # "" THEN err.data
    ELSE IF err.message # "" THEN err.message
    ELSE "Trade submission failed"

\* a catch that sends the request again
SubmitTradeCatchRetry(p) == {[p EXCEPT !.id = postCount + 1]}

\* the requests the catch of submitTrade issues: none, it sets the error
\* and rethrows
SubmitTradeCatchRequests(p) == {}

\* a catch that also drops the last confirmed order
SubmitCatchClearsLastOrder(lo) == Null

\* lastOrder after the catch of submitTrade: set({ error, isLoading: false })
\* merges into the store and names no lastOrder
SubmitCatchLastOrder(lo) == lo

\* the green banner of TradeForm: shown for any lastOrder; toFixed on an
\* absent exec_price or slippage throws
LastOrderBanner ==
    IF lastOrder = Null THEN "none"
    ELSE IF \E o \in lastOrder : o.exec_price.t # "number" \/ o.slippage.t # "number"
         THEN "TypeError"
    ELSE "executed"

SetSide(s) ==
    /\ page = "dashboard"
    /\ s # side
    /\ side' = s
    /\ UNCHANGED <<type, quantity, limitPrice, obVars, storeVars, statsVars, tradeVars, anVars, extVars>>

SetType(t) ==
    /\ page = "dashboard"
    /\ t # type
    /\ type' = t
    /\ UNCHANGED <<side, quantity, limitPrice, obVars, storeVars, statsVars, tradeVars, anVars, extVars>>

SetQuantity(q) ==
    /\ page = "dashboard"
    /\ q # quantity
    /\ quantity' = q
    /\ UNCHANGED <<side, type, limitPrice, obVars, storeVars, statsVars, tradeVars, anVars, extVars>>

\* the limit price input is rendered only when type is LIMIT
SetLimitPrice(l) ==
    /\ page = "dashboard"
    /\ type = "LIMIT"
    /\ l # limitPrice
    /\ limitPrice' = l
    /\ UNCHANGED <<side, type, quantity, obVars, storeVars, statsVars, tradeVars, anVars, extVars>>

\* the form is submitted. The button is disabled while isLoading. With a
\* required input empty the browser reports it and handleSubmit does not
\* run; otherwise handleSubmit runs: it alerts and returns on an invalid
\* quantity, else submitTrade sets loading, clears the error and POSTs.
HandleSubmit ==
    /\ page = "dashboard"
    /\ ~isLoading
    /\ submitCalls < MaxSubmits
    /\ IF ~RequiredFilled
       THEN /\ submitOutcome' = "invalid"
            /\ UNCHANGED <<posts, postCount, submitCalls, lastFailure, formPosts>>
            /\ UNCHANGED <<obVars, storeVars>>
       ELSE /\ submitCalls' = submitCalls + 1
            /\ IF QuantityInvalid(quantity)
               THEN /\ submitOutcome' = "ValidationError"
                    /\ UNCHANGED <<posts, postCount, lastFailure, formPosts>>
                    /\ UNCHANGED <<obVars, storeVars>>
               ELSE /\ isLoading' = TRUE
                    /\ error' = Null
                    /\ posts' = posts \cup {[id |-> postCount + 1, body |-> TradeRequest]}
                    /\ formPosts' = formPosts \cup {postCount + 1}
                    /\ postCount' = postCount + 1
                    /\ submitOutcome' = "pending"
                    /\ DashboardRender
                    /\ UNCHANGED <<lastOrder, lastFailure>>
    /\ UNCHANGED <<statsVars, formVars, anVars>>
    /\ UNCHANGED <<bookVars, authVars, page, statsTimer, navCount>>

\* what is unchanged by the continuation of a submitTrade call besides the
\* slots it sets and the page it renders
SubmitFrame ==
    /\ UNCHANGED <<side, type, submitCalls, statsVars>>
    /\ UNCHANGED <<storeModule, trades, stats, anSymbol, anInflight, anFailed>>
    /\ UNCHANGED <<bookVars, authVars, page, statsTimer, navCount>>

\* POST /trade/ resolves: set({lastOrder, isLoading: false}); handleSubmit
\* resumes and resets the two inputs of the TradeForm that sent it, if that
\* form is still mounted
SubmitTradeResolve(p, rec) ==
    /\ p \in posts
    /\ rec \in OrderResponses(p.body)
    /\ posts' = posts \ {p}
    /\ formPosts' = formPosts \ {p.id}
    /\ lastOrder' = {rec}
    /\ isLoading' = FALSE
    /\ IF p.id \in formPosts
       THEN quantity' = "" /\ limitPrice' = ""
       ELSE UNCHANGED <<quantity, limitPrice>>
    /\ submitOutcome' = "resolved"
    /\ StoreRender(trades, FALSE)
    /\ UNCHANGED <<error, lastFailure, postCount>>
    /\ SubmitFrame

\* POST /trade/ rejects: set({error, isLoading: false}) and rethrow;
\* handleSubmit catches and does nothing
SubmitTradeReject(p, err) ==
    /\ p \in posts
    /\ err \in Failures
    /\ posts' = (posts \ {p}) \cup SubmitTradeCatchRequests(p)
    /\ postCount' = postCount + Cardinality(SubmitTradeCatchRequests(p))
    /\ error' = {SubmitErrorMsg(err)}
    /\ isLoading' = FALSE
    /\ formPosts' = formPosts \ {p.id}
    /\ submitOutcome' = "rejected"
    /\ lastFailure' = {err}
    /\ lastOrder' = SubmitCatchLastOrder(lastOrder)
    /\ StoreRender(trades, FALSE)
    /\ UNCHANGED <<quantity, limitPrice>>
    /\ SubmitFrame

----------------------------------------------------------------------------
(* Analytics page: its own actions                                         *)

\* React renders Analytics after a change of the store or of its own state
AnalyticsRender ==
    /\ page = "analytics"
    /\ anView # {AnalyticsView(trades, anSymbol, isLoading)}
    /\ anView' = {AnalyticsView(trades, anSymbol, isLoading)}
    /\ UNCHANGED <<storeModule, trades, stats, anSymbol, anInflight, anFailed>>
    /\ UNCHANGED <<obVars, storeVars, statsVars, formVars, tradeVars, extVars>>

\* a click on "All" or on a symbol button, and the render it causes; the
\* buttons are on the statistics screen of a history of more than one symbol
SetSelectedSymbol(sel) ==
    /\ page = "analytics"
    /\ anView # Null
    /\ trades # Null
    /\ Len(History) > 0
    /\ Cardinality(Symbols(History)) > 1
    /\ sel \in {Null} \cup { {s} : s \in Symbols(History) }
    /\ sel # anSymbol
    /\ anSymbol' = sel
    /\ anView' = {AnalyticsView(trades, sel, isLoading)}
    /\ UNCHANGED <<storeModule, trades, stats, anInflight, anFailed>>
    /\ UNCHANGED <<obVars, storeVars, statsVars, formVars, tradeVars, extVars>>

\* a signed-in session on the route pg; nothing below has happened yet
SessionAt(pg) ==
    /\ page = pg
    /\ statsTimer = (pg = "dashboard")
    /\ navCount = 0
    /\ formPosts = {}
    /\ lsToken = {"t1"}
    /\ authToken = {"t1"}
    /\ sent = <<>>

NoBook == book = Null /\ bookView = Null

\* Dashboard is not mounted: no timer, no request of its own in flight
DashboardAway ==
    /\ selectedSymbol = "BTC-USD"
    /\ currentPrice = 0
    /\ orderBook = Null
    /\ obLoading = TRUE
    /\ obError = ""
    /\ inflight = {}
    /\ timers = {}
    /\ obInterval = Req(1, "BTC-USD")
    /\ reqSeq = 1
    /\ obHandled = [id |-> 0, symbol |-> "", ok |-> TRUE]
    /\ watchFetches = 1
    /\ watchTicks = 0
    /\ dashboardStats = Null
    /\ statsInflight = 0
    /\ side = "BUY"
    /\ type = "MARKET"
    /\ quantity = ""
    /\ limitPrice = ""
    /\ posts = {}
    /\ postCount = 0
    /\ submitCalls = 0
    /\ submitOutcome = "none"
    /\ lastFailure = Null
    /\ lastOrder = Null

\* a history has arrived in the store and Analytics is about to render it
InitStats ==
    /\ DashboardAway
    /\ isLoading = FALSE
    /\ error = Null
    /\ storeModule \in StoreModules
    /\ trades \in { {h} : h \in Histories }
    /\ stats = Null
    /\ anSymbol = Null
    /\ anInflight = {}
    /\ anFailed = {}
    /\ anView = Null
    /\ SessionAt("analytics")
    /\ NoBook

----------------------------------------------------------------------------
(* OrderBook component: the price levels of a snapshot                      *)
(* (src/src/components/OrderBook.tsx:104-121, 142-199)                      *)

\* longest side of a snapshot enumerated
MaxLevels == 2

NegInfinity == [t |-> "-Infinity", v |-> 0]

PosInfinity == [t |-> "Infinity", v |-> 0]

\* level.size as the venue sends it: missing, zero, or a positive amount
\* (amounts are chosen so that size / maxSize * 100 is a whole number)
LevelSizes == {Undefined, Num(0), Num(1), Num(2)}

\* bids or asks of a snapshot: missing, or a list of levels
BookSides == {Null} \cup { {l} : l \in UNION { [1..n -> LevelSizes] : n \in 0..MaxLevels } }

Books == [bids : BookSides, asks : BookSides]

SideOf(x) == CHOOSE l \in x : TRUE

\* !orderBook.bids || !orderBook.asks only
BookIncompleteMissingOnly(b) == b.bids = Null \/ b.asks = Null

\* !orderBook.bids || !orderBook.asks || bids.length === 0 || asks.length === 0
BookIncomplete(b) ==
    \/ b.bids = Null
    \/ b.asks = Null
    \/ Len(SideOf(b.bids)) = 0
    \/ Len(SideOf(b.asks)) = 0

\* side.map((l) => l.size || 0).filter(s => s > 0), as a set
PositiveSizes(l) == { OrZero(l[i]) : i \in DOMAIN l } \ {0}

\* Math.max(...): -Infinity when called with no argument
MathMax(S) == IF S = {} THEN NegInfinity ELSE Num(CHOOSE m \in S : \A x \in S : x <= m)

MaxSizeOf(b) == MathMax(PositiveSizes(SideOf(b.bids)) \cup PositiveSizes(SideOf(b.asks)))

\* level?.size ?? 0
SizeOrZero(x) == IF x.t = "number" THEN x.v ELSE 0

\* (a / b) * 100 for a >= 0
JsPercent(a, b) ==
    IF b.t = "-Infinity" THEN Num(0)
    ELSE IF b.v = 0 THEN (IF a = 0 THEN NaN ELSE PosInfinity)
    ELSE Num((a * 100) \div b.v)

\* maxSize > 0
Positive(x) == x.t = "number" /\ x.v > 0

\* maxSize > 0 ? (size / maxSize) * 100 : 0
LevelWidth(size, maxSize) ==
    IF Positive(maxSize) THEN JsPercent(SizeOrZero(size), maxSize) ELSE Num(0)

SideWidths(l, maxSize) == [i \in 1..Len(l) |-> LevelWidth(l[i], maxSize)]

\* the part of the render of OrderBook below the loading, error and no-data
\* returns
BookView(b) ==
    IF BookIncomplete(b)
    THEN [screen |-> "incomplete", maxSize |-> {}, bidWidths |-> {}, askWidths |-> {}]
    ELSE [screen |-> "levels",
          maxSize |-> {MaxSizeOf(b)},
          bidWidths |-> {SideWidths(SideOf(b.bids), MaxSizeOf(b))},
          askWidths |-> {SideWidths(SideOf(b.asks), MaxSizeOf(b))}]

\* OrderBook renders the snapshot in its slot
OrderBookRender ==
    /\ ObView = "book"
    /\ book # Null
    /\ bookView = Null
    /\ bookView' = {BookView(SideOf(book))}
    /\ UNCHANGED <<book, navVars, authVars>>
    /\ UNCHANGED <<obVars, storeVars, statsVars, formVars, tradeVars, anVars>>

\* Dashboard is mounted and a snapshot has arrived in the slot of OrderBook
InitBook ==
    /\ selectedSymbol = "BTC-USD"
    /\ currentPrice = 1
    /\ orderBook = {[symbol |-> "BTC-USD", mid |-> 1]}
    /\ obLoading = FALSE
    /\ obError = ""
    /\ inflight = {}
    /\ timers = {Req(1, "BTC-USD")}
    /\ obInterval = Req(1, "BTC-USD")
    /\ reqSeq = 1
    /\ obHandled = [id |-> 1, symbol |-> "BTC-USD", ok |-> TRUE]
    /\ watchFetches = 1
    /\ watchTicks = 0
    /\ isLoading = FALSE
    /\ error = Null
    /\ lastOrder = Null
    /\ dashboardStats = Null
    /\ statsInflight = 0
    /\ side = "BUY"
    /\ type = "MARKET"
    /\ quantity = ""
    /\ limitPrice = ""
    /\ posts = {}
    /\ postCount = 0
    /\ submitCalls = 0
    /\ submitOutcome = "none"
    /\ lastFailure = Null
    /\ storeModule \in StoreModules
    /\ trades = {<<>>}
    /\ stats = Null
    /\ anSymbol = Null
    /\ anInflight = {}
    /\ anFailed = {}
    /\ anView = Null
    /\ SessionAt("dashboard")
    /\ book \in { {b} : b \in Books }
    /\ bookView = Null

----------------------------------------------------------------------------
(* Analytics page: the two fetches of the mount effect                      *)
(* (src/unnamed/part_001:142-173, src/src/pages/Signup.tsx:620-651)         *)

\* err.response?.data || err.message || fallback
FetchErrorMsg(err, fallback) ==
    IF err.data # "" THEN err.data
    ELSE IF err.message # "" THEN err.message
    ELSE fallback

\* what reading response.data.stats throws when response.data is null
TypeErrorOnNull ==
    [data |-> "", message |-> "Cannot read properties of null (reading 'stats')"]

\* a history of the three records FILLED, FILLED, PENDING over two symbols
MixedHistory ==
    CHOOSE h \in ScenarioHistories :
        /\ h[1].symbol = "BTC-USD" /\ h[1].status = "FILLED" /\ h[1].side = "BUY"
        /\ h[2].symbol = "ETH-USD" /\ h[2].status = "FILLED" /\ h[2].side = "SELL"
        /\ h[2].slippage_bps = Num(6)
        /\ h[3].symbol = "BTC-USD" /\ h[3].side = "SELL"

FetchedHistories == { h \in ShortHistories : Len(h) <= 1 } \cup {MixedHistory}

\* response.data of a 200 from GET /me/orders: an array or null
OrdersBodies == {Null} \cup { {h} : h \in FetchedHistories }

\* response.data of a 200 from GET /me/analytics: null, an empty body (""),
\* {stats: SymbolStats} or a SymbolStats object
AnalyticsBodies == {"null", "absent", "wrapped", "bare"}

\* trades: response.data || []  (part_001:165);  trades: response.data
\* (Signup.tsx:642)
TradesOfBody(body) ==
    IF storeModule = "part_001" /\ body = Null THEN {<<>>} ELSE body

\* stats: response.data.stats || response.data || null  (part_001:148);
\* stats: response.data.stats || response.data  (Signup.tsx:626)
StatsOfBody(body) ==
    IF body = "absent"
    THEN IF storeModule = "part_001" THEN Null ELSE {""}
    ELSE {"SymbolStats"}

\* GET /me/orders answers 200
FetchAllTradesResolve(body) ==
    /\ "orders" \in anInflight
    /\ anInflight' = anInflight \ {"orders"}
    /\ trades' = TradesOfBody(body)
    /\ isLoading' = FALSE
    /\ StoreRender(TradesOfBody(body), FALSE)
    /\ UNCHANGED <<storeModule, stats, anSymbol, anFailed, error, lastOrder>>
    /\ UNCHANGED <<statsVars, formVars, tradeVars, extVars>>

\* GET /me/orders fails: the catch sets the error and keeps the history (the
\* copy of Signup.tsx rethrows into a promise nobody awaits)
FetchAllTradesReject(err) ==
    /\ "orders" \in anInflight
    /\ anInflight' = anInflight \ {"orders"}
    /\ anFailed' = anFailed \cup {"orders"}
    /\ error' = {FetchErrorMsg(err, "Failed to fetch trades")}
    /\ isLoading' = FALSE
    /\ StoreRender(trades, FALSE)
    /\ UNCHANGED <<storeModule, trades, stats, anSymbol, lastOrder>>
    /\ UNCHANGED <<statsVars, formVars, tradeVars, extVars>>

\* GET /me/analytics answers 200; on a null body response.data.stats throws
\* inside the try and the catch records the TypeError as the error
FetchAnalyticsResolve(body) ==
    /\ "analytics" \in anInflight
    /\ anInflight' = anInflight \ {"analytics"}
    /\ IF body = "null"
       THEN /\ error' = {FetchErrorMsg(TypeErrorOnNull, "Failed to fetch analytics")}
            /\ stats' = stats
       ELSE /\ stats' = StatsOfBody(body)
            /\ error' = error
    /\ isLoading' = FALSE
    /\ StoreRender(trades, FALSE)
    /\ UNCHANGED <<storeModule, trades, anSymbol, anFailed, lastOrder>>
    /\ UNCHANGED <<statsVars, formVars, tradeVars, extVars>>

\* GET /me/analytics fails
FetchAnalyticsReject(err) ==
    /\ "analytics" \in anInflight
    /\ anInflight' = anInflight \ {"analytics"}
    /\ anFailed' = anFailed \cup {"analytics"}
    /\ error' = {FetchErrorMsg(err, "Failed to fetch analytics")}
    /\ isLoading' = FALSE
    /\ StoreRender(trades, FALSE)
    /\ UNCHANGED <<storeModule, trades, stats, anSymbol, lastOrder>>
    /\ UNCHANGED <<statsVars, formVars, tradeVars, extVars>>

\* Analytics has mounted: the effect has called fetchAllTrades() and
\* fetchAnalytics(), each has run set({isLoading: true, error: null}) and
\* sent its request; the store holds [] or the history of an earlier visit
InitAnalytics ==
    /\ DashboardAway
    /\ isLoading = TRUE
    /\ error = Null
    /\ storeModule \in StoreModules
    /\ trades \in { {<<>>}, {MixedHistory} }
    /\ stats \in {Null, {"SymbolStats"}}
    /\ anSymbol = Null
    /\ anInflight = {"orders", "analytics"}
    /\ anFailed = {}
    /\ anView = {AnalyticsView(trades, Null, TRUE)}
    /\ SessionAt("analytics")
    /\ NoBook

----------------------------------------------------------------------------
(* Navigation between Dashboard and Analytics                               *)
(* (src/unnamed/part_000:21-43, Signup.tsx:187-193, Analytics.tsx:35-38)    *)

\* page changes enumerated
MaxNav == 2

\* a cleanup of the stats effect that leaves the interval alive
StatsCleanupLeak(t) == t

\* return () => clearInterval(interval) of the stats effect of Dashboard
StatsCleanup(t) == FALSE

\* Dashboard unmounts: the cleanups of the OrderBook effect and of the stats
\* effect clear their intervals; the state of Dashboard, OrderBook and
\* TradeForm is discarded, and the order-book responses still awaited can
\* only set the state of the unmounted OrderBook, which has no effect
DashboardUnmount ==
    /\ timers' = ClearInterval(timers, obInterval)
    /\ statsTimer' = StatsCleanup(statsTimer)
    /\ inflight' = {}
    /\ formPosts' = {}
    /\ UNCHANGED <<selectedSymbol, currentPrice, orderBook, obLoading, obError,
                   obInterval, reqSeq, obHandled, watchFetches, watchTicks>>
    /\ UNCHANGED <<formVars, book, bookView>>

\* Dashboard mounts: fresh component state, the OrderBook effect fetches and
\* sets its interval, the stats effect fetches and sets its interval
DashboardMount ==
    /\ selectedSymbol' = "BTC-USD"
    /\ currentPrice' = 0
    /\ orderBook' = Null
    /\ OrderBookEffect("BTC-USD", {})
    /\ obHandled' = [id |-> 0, symbol |-> "", ok |-> TRUE]
    /\ watchFetches' = 1
    /\ watchTicks' = 0
    /\ statsInflight' = statsInflight + 1
    /\ statsTimer' = TRUE
    /\ side' = "BUY"
    /\ type' = "MARKET"
    /\ quantity' = ""
    /\ limitPrice' = ""
    /\ formPosts' = {}
    /\ book' = Null
    /\ bookView' = Null

\* the Analytics link of Dashboard: Dashboard unmounts, Analytics mounts and
\* its effect calls fetchAllTrades() and fetchAnalytics(), each of which runs
\* set({isLoading: true, error: null}) and sends its request. The fetches of
\* an earlier visit have been answered.
GoAnalytics ==
    /\ page = "dashboard"
    /\ navCount < MaxNav
    /\ anInflight = {}
    /\ page' = "analytics"
    /\ navCount' = navCount + 1
    /\ DashboardUnmount
    /\ isLoading' = TRUE
    /\ error' = Null
    /\ anSymbol' = Null
    /\ anInflight' = {"orders", "analytics"}
    /\ anFailed' = {}
    /\ anView' = {AnalyticsView(trades, Null, TRUE)}
    /\ UNCHANGED <<lastOrder, statsVars, tradeVars, storeModule, trades, stats, authVars>>

\* the Dashboard button of Analytics (not there when its render has thrown):
\* Analytics unmounts, Dashboard mounts
GoDashboard ==
    /\ page = "analytics"
    /\ navCount < MaxNav
    /\ \A v \in anView : v.screen # "TypeError"
    /\ page' = "dashboard"
    /\ navCount' = navCount + 1
    /\ anView' = Null
    /\ DashboardMount
    /\ UNCHANGED <<storeVars, dashboardStats, tradeVars, authVars>>
    /\ UNCHANGED <<storeModule, trades, stats, anSymbol, anInflight, anFailed>>

----------------------------------------------------------------------------
(* Session and venue client                                                 *)
(* (src/unnamed/part_001:207-322: useAuthStore, apiClient)                  *)

\* requests through apiClient that are logged
MaxSent == 3

\* tokens the identity service issues
Tokens == {"t1", "t2"}

\* the endpoints called through apiClient
Urls == {"/orderbook", "/trade/", "/me/orders", "/me/analytics", "/me/stats"}

\* an interceptor that keeps the token it read when the client was created
AuthorizationHeaderCached(tok) == {[scheme |-> "Bearer", credentials |-> "t1"]}

\* the request interceptor: tok is localStorage.getItem("token"); with a
\* token the header is `Bearer ${token}`, without one no header is set
AuthorizationHeader(tok) ==
    IF tok # Null
    THEN {[scheme |-> "Bearer", credentials |-> CHOOSE t \in tok : TRUE]}
    ELSE Null

\* a request leaves through apiClient: the interceptor runs when it is sent.
\* session is the token of the auth store at that moment (history).
Sent(url, ls, session) ==
    [url |-> url, Authorization |-> AuthorizationHeader(ls), session |-> session]

\* some component calls apiClient.get or apiClient.post
ApiClientRequest(url) ==
    /\ Len(sent) < MaxSent
    /\ sent' = Append(sent, Sent(url, lsToken, authToken))
    /\ UNCHANGED <<lsToken, authToken, bookVars, navVars>>
    /\ UNCHANGED <<obVars, storeVars, statsVars, formVars, tradeVars, anVars>>

\* handleLogout of Dashboard or Analytics: logout() removes the token from
\* localStorage and from the auth store, navigate('/login') unmounts the page
Logout ==
    /\ page \in {"dashboard", "analytics"}
    /\ navCount < MaxNav
    /\ lsToken' = Null
    /\ authToken' = Null
    /\ page' = "login"
    /\ navCount' = navCount + 1
    /\ IF page = "dashboard"
       THEN DashboardUnmount /\ UNCHANGED anView
       ELSE /\ anView' = Null
            /\ UNCHANGED <<obVars, formVars, bookVars, statsTimer, formPosts>>
    /\ UNCHANGED <<sent, storeVars, statsVars, tradeVars>>
    /\ UNCHANGED <<storeModule, trades, stats, anSymbol, anInflight, anFailed>>

\* handleSubmit of Login when POST /auth/login (sent with axios, not with
\* apiClient) answers with token t: the token is stored in localStorage and
\* in the auth store, navigate('/dashboard') mounts Dashboard, whose effects
\* send GET /orderbook/BTC-USD and GET /me/stats through apiClient
LoginResolve(t) ==
    /\ page = "login"
    /\ navCount < MaxNav
    /\ Len(sent) + 2 <= MaxSent
    /\ lsToken' = {t}
    /\ authToken' = {t}
    /\ page' = "dashboard"
    /\ navCount' = navCount + 1
    /\ anView' = Null
    /\ DashboardMount
    /\ sent' = sent \o <<Sent("/orderbook", {t}, {t}), Sent("/me/stats", {t}, {t})>>
    /\ UNCHANGED <<storeVars, dashboardStats, tradeVars>>
    /\ UNCHANGED <<storeModule, trades, stats, anSymbol, anInflight, anFailed>>

----------------------------------------------------------------------------
(* State after Dashboard has mounted: both mount effects have run           *)

Init ==
    /\ selectedSymbol = "BTC-USD"
    /\ currentPrice = 0
    /\ orderBook = Null
    /\ obLoading = TRUE
    /\ obError = ""
    /\ inflight = {Req(1, "BTC-USD")}
    /\ timers = {Req(1, "BTC-USD")}
    /\ obInterval = Req(1, "BTC-USD")
    /\ reqSeq = 1
    /\ obHandled = [id |-> 0, symbol |-> "", ok |-> TRUE]
    /\ watchFetches = 1
    /\ watchTicks = 0
    /\ isLoading = FALSE
    /\ error = Null
    /\ lastOrder = Null
    /\ dashboardStats = Null
    /\ statsInflight = 1
    /\ side = "BUY"
    /\ type = "MARKET"
    /\ quantity = ""
    /\ limitPrice = ""
    /\ posts = {}
    /\ postCount = 0
    /\ submitCalls = 0
    /\ submitOutcome = "none"
    /\ lastFailure = Null
    /\ storeModule \in StoreModules
    /\ trades = {<<>>}
    /\ stats = Null
    /\ anSymbol = Null
    /\ anInflight = {}
    /\ anFailed = {}
    /\ anView = Null
    /\ SessionAt("dashboard")
    /\ NoBook

Next ==
    \/ \E s \in SYMBOLS : SelectSymbol(s)
    \/ \E t \in timers : IntervalTick(t)
    \/ \E r \in inflight : \E data \in Snapshots(r) : FetchOrderBookResolve(r, data)
    \/ \E r \in inflight : FetchOrderBookReject(r)
    \/ StatsTick
    \/ \E d \in StatsData : FetchDashboardStatsResolve(d)
    \/ FetchDashboardStatsReject

Spec == Init /\ [][Next]_vars

\* the trade form in use while no order-book or stats event arrives
NextTrade ==
    \/ \E s \in {"BUY", "SELL"} : SetSide(s)
    \/ \E t \in {"MARKET", "LIMIT"} : SetType(t)
    \/ \E q \in QuantityInputs : SetQuantity(q)
    \/ \E l \in LimitPriceInputs : SetLimitPrice(l)
    \/ HandleSubmit
    \/ \E p \in posts : \E rec \in OrderResponses(p.body) : SubmitTradeResolve(p, rec)
    \/ \E p \in posts : \E err \in Failures : SubmitTradeReject(p, err)

SpecTrade == Init /\ [][NextTrade]_vars

\* the Analytics page over a history that has arrived: the filter buttons
NextStats ==
    \/ AnalyticsRender
    \/ \E sel \in {Null} \cup { {s} : s \in AN_SYMBOLS } : SetSelectedSymbol(sel)

SpecStats == InitStats /\ [][NextStats]_vars

\* the Analytics page from its mount until both fetches have completed
NextAnalytics ==
    \/ \E body \in OrdersBodies : FetchAllTradesResolve(body)
    \/ \E err \in Failures : FetchAllTradesReject(err)
    \/ \E body \in AnalyticsBodies : FetchAnalyticsResolve(body)
    \/ \E err \in Failures : FetchAnalyticsReject(err)
    \/ \E sel \in {Null} \cup { {s} : s \in AN_SYMBOLS } : SetSelectedSymbol(sel)

SpecAnalytics == InitAnalytics /\ [][NextAnalytics]_vars

\* a failure without a response
NetworkError == [data |-> "", message |-> "Network Error"]

\* the trade form, the analytics fetches and the two links between the
\* pages, with one answer of each kind from the venue
NextNav ==
    \/ SetQuantity("2")
    \/ HandleSubmit
    \/ \E p \in posts : \E rec \in { r \in OrderResponses(p.body) : r.status = "FILLED" } :
          SubmitTradeResolve(p, rec)
    \/ \E p \in posts : SubmitTradeReject(p, NetworkError)
    \/ GoAnalytics
    \/ GoDashboard
    \/ FetchAllTradesResolve({<<>>})
    \/ FetchAllTradesReject(NetworkError)
    \/ FetchAnalyticsResolve("wrapped")
    \/ FetchAnalyticsReject(NetworkError)

SpecNav == Init /\ [][NextNav]_vars

\* Dashboard mounted and unmounted, with its two timers and their fetches
NextMount ==
    \/ \E t \in timers : IntervalTick(t)
    \/ \E r \in inflight : \E data \in Snapshots(r) : FetchOrderBookResolve(r, data)
    \/ \E r \in inflight : FetchOrderBookReject(r)
    \/ StatsTick
    \/ \E d \in StatsData : FetchDashboardStatsResolve(d)
    \/ FetchDashboardStatsReject
    \/ GoAnalytics
    \/ GoDashboard
    \/ FetchAllTradesResolve({<<>>})
    \/ FetchAnalyticsResolve("wrapped")

SpecMount == Init /\ [][NextMount]_vars

\* the session and the requests that leave through apiClient
NextAuth ==
    \/ \E url \in Urls : ApiClientRequest(url)
    \/ Logout
    \/ \E t \in Tokens : LoginResolve(t)

SpecAuth == Init /\ [][NextAuth]_vars

\* OrderBook rendering the levels of a snapshot
NextBook ==
    \/ OrderBookRender

SpecBook == InitBook /\ [][NextBook]_vars

----------------------------------------------------------------------------
(* Order Book Cache: claims, checked under Spec                            *)

\* C1: every order-book response that is applied (written to the snapshot
\* slot and pushed to onDataReceived) answers a fetch issued for the symbol
\* watched at that moment; a response to a fetch for a symbol that has been
\* switched away from is never applied.
C1_NoStaleSymbolApplied ==
    [][(obHandled' # obHandled /\ obHandled'.ok)
          => /\ obHandled'.symbol = selectedSymbol
             /\ \A b \in orderBook' : b.symbol = selectedSymbol]_vars

\* C2: among the responses to fetches for the watched symbol, one that
\* answers an older request than the response handled before it is
\* discarded: it neither replaces the snapshot nor sets the error slot.
C2_OlderResponseDiscarded ==
    [][(/\ obHandled' # obHandled
        /\ obHandled'.symbol = selectedSymbol
        /\ obHandled.symbol = selectedSymbol)
          => obHandled'.id > obHandled.id]_vars

\* C3: while one symbol stays watched, the fetches issued for it are one at
\* the start of watching plus one per tick of the 60 s interval.
C3_FetchesAreStartPlusTicks == watchFetches = 1 + watchTicks

\* C4: at most one order-book interval is live, and it was registered for
\* the currently watched symbol.
C4_OneTimerForWatchedSymbol ==
    /\ Cardinality(timers) <= 1
    /\ \A t \in timers : t.symbol = selectedSymbol

\* C4 witness: BTC-USD is watched again after a switch to ETH-USD and back
\* (an ETH-USD request is still awaited), and one interval is live.
C4_Witness ==
    /\ selectedSymbol = "BTC-USD"
    /\ \E r \in inflight : r.symbol = "ETH-USD"
    /\ obInterval.id > 1
    /\ timers = {obInterval}

\* C5: when a fetch has failed after an earlier one succeeded (error slot
\* set, snapshot slot holding the last good snapshot), the component
\* renders that snapshot and not the error-only view.
C5_LastGoodSnapshotRendered ==
    (obError # "" /\ orderBook # Null /\ ~obHandled.ok) => ObView = "book"

----------------------------------------------------------------------------
(* Order Submission Pipeline: claims, checked under SpecTrade              *)

\* C6: a submission whose quantity is missing, zero or negative issues no
\* POST /trade/, ends in a validation failure and leaves lastOrder, error
\* and isLoading as they were.
C6_InvalidQuantityNoPost ==
    [][(HandleSubmit /\ quantity \in {"", "0", "-1"})
          => /\ posts' = posts
             /\ postCount' = postCount
             /\ UNCHANGED <<isLoading, error, lastOrder>>
             /\ submitOutcome' \in {"invalid", "ValidationError"}]_vars

\* C6 witness: handleSubmit has run on a zero quantity and ended in the
\* validation failure, with nothing posted.
C6_Witness ==
    /\ submitOutcome = "ValidationError"
    /\ quantity = "0"
    /\ submitCalls = 1
    /\ postCount = 0

\* C7: every POST /trade/ that reaches the network with type LIMIT carries
\* a limit_price > 0 and every one with type MARKET carries none (a LIMIT
\* submission without such a price is stopped before the network).
C7_PostedLimitPriceValid ==
    \A p \in posts :
        /\ p.body.type = "LIMIT"
              => p.body.limit_price.t = "number" /\ p.body.limit_price.v > 0
        /\ p.body.type = "MARKET" => p.body.limit_price = Undefined

\* C8: the number of POST /trade/ requests issued never exceeds the number
\* of handleSubmit calls: a failed submission is not sent again.
C8_NoAutoRetry == postCount <= submitCalls

\* C8 witness: a submission has failed and no request is outstanding.
C8_Witness ==
    /\ submitOutcome = "rejected"
    /\ posts = {}
    /\ postCount = 1
    /\ submitCalls = 1

\* C9: when a POST /trade/ fails, submitTrade rejects to its caller and the
\* error slot is set: to the body of the server's response when there is
\* one, otherwise to a non-empty message that is not the server's.
C9_FailureSurfaced ==
    [][\A p \in posts : \A err \in Failures :
          SubmitTradeReject(p, err)
             => /\ submitOutcome' = "rejected"
                /\ error' # Null
                /\ err.data # "" => error' = {err.data}
                /\ err.data = ""
                      => /\ error' \subseteq {err.message, "Trade submission failed"}
                         /\ "" \notin error']_vars

\* C9 witness: a submission was rejected with a server message, which is in
\* the error slot.
C9_Witness ==
    /\ submitOutcome = "rejected"
    /\ \E f \in lastFailure : f.data # "" /\ error = {f.data}

\* C10: lastOrder changes only when a POST /trade/ resolves, to the record
\* the server returned; and an order the server returned as PENDING, with
\* no execution data, is never presented with an execution price and
\* slippage.
C10_OnlyServerRecordNoAssumedFill ==
    [][/\ lastOrder' # lastOrder
          => \E p \in posts : \E rec \in OrderResponses(p.body) :
                SubmitTradeResolve(p, rec) /\ lastOrder' = {rec}
       /\ \A o \in lastOrder' : o.status = "PENDING" => LastOrderBanner' # "executed"]_vars

----------------------------------------------------------------------------
(* Analytics statistics, checked under SpecStats                            *)

\* what the last render showed
Shown == CHOOSE v \in anView : TRUE

\* a render has run and has computed the statistics
Rendered == anView # Null /\ Shown.stats # {}

ShownStats == CHOOSE x \in Shown.stats : TRUE

\* the statistics a render computes for the history ts under the filter in use
StatsOf(ts) == CHOOSE x \in AnalyticsView({ts}, anSymbol, isLoading).stats : TRUE

\* the records the filter keeps, as positions of the stored history
WorkingIdx == { i \in DOMAIN History : anSymbol = Null \/ {History[i].symbol} = anSymbol }

FilledIdx == { i \in WorkingIdx : History[i].status = "FILLED" }

RECURSIVE SumIdx(_, _)
SumIdx(I, field) ==
    IF I = {} THEN 0
    ELSE LET i == CHOOSE j \in I : TRUE
         IN  OrZero(History[i][field]) + SumIdx(I \ {i}, field)

PendingTrades ==
    { Trade(sym, sd, k, Len(History) + 1) :
        sym \in AN_SYMBOLS, sd \in SIDES, k \in { x \in TradeKinds : x.status = "PENDING" } }

\* C11: avgSlippage is the sum of slippage_bps over the FILLED records of the
\* working set divided by their number (two decimals), 0 when there is none,
\* and appending any PENDING record, with or without slippage data, leaves it
\* unchanged.
C11_AvgSlippageOverFilledOnly ==
    Rendered =>
        /\ ShownStats.avgSlippage =
             IF FilledIdx = {} THEN Num(0)
             ELSE Num(RoundHalfUp(100 * SumIdx(FilledIdx, "slippage_bps"),
                                  Cardinality(FilledIdx)))
        /\ \A p \in PendingTrades :
             StatsOf(Append(History, p)).avgSlippage = ShownStats.avgSlippage

\* a rendered working set holding a FILLED record and a PENDING one that
\* carries slippage data
C11_Witness ==
    /\ Rendered
    /\ FilledIdx # {}
    /\ \E i \in WorkingIdx :
         History[i].status = "PENDING" /\ History[i].slippage_bps = Num(5)
    /\ ShownStats.avgSlippage = Num(400)

C12_Scenario ==
    /\ anSymbol = Null
    /\ Len(History) = 3
    /\ \E i \in 1..3 : History[i].status = "FILLED" /\ History[i].slippage_bps = Num(4)
    /\ \E i \in 1..3 : History[i].status = "FILLED" /\ History[i].slippage_bps = Num(6)
    /\ \E i \in 1..3 : History[i].status = "PENDING"

\* C12: fillRate is filled/total*100 to one decimal, a number between 0 and
\* 100, 0 for an empty working set (no division by zero); for the history
\* FILLED 4 bps, FILLED 6 bps, PENDING it is 66.7 with avgSlippage 5.00 and
\* totalTrades 3.
C12_FillRateBoundedAndScenario ==
    Rendered =>
        /\ ShownStats.fillRate.t = "number"
        /\ ShownStats.fillRate.v \in 0..1000
        /\ WorkingIdx # {} =>
             ShownStats.fillRate =
               Num(RoundHalfUp(1000 * Cardinality(FilledIdx), Cardinality(WorkingIdx)))
        /\ WorkingIdx = {} => ShownStats.fillRate = Num(0)
        /\ C12_Scenario =>
             /\ ShownStats.fillRate = Num(667)
             /\ ShownStats.avgSlippage = Num(500)
             /\ ShownStats.totalTrades = 3

\* the history of the claim has been rendered
C12_Witness == Rendered /\ C12_Scenario /\ ShownStats.fillRate = Num(667)

\* C13: a PENDING record is counted in totalTrades, in exactly one of
\* buyTrades and sellTrades according to its side, and in the denominator of
\* fillRate; buyTrades + sellTrades = totalTrades for every history and
\* filter.
C13_PendingCounted ==
    Rendered =>
        /\ ShownStats.totalTrades = Cardinality(WorkingIdx)
        /\ ShownStats.buyTrades =
             Cardinality({ i \in WorkingIdx : History[i].side = "BUY" })
        /\ ShownStats.sellTrades =
             Cardinality({ i \in WorkingIdx : History[i].side = "SELL" })
        /\ ShownStats.buyTrades + ShownStats.sellTrades = ShownStats.totalTrades
        /\ \A p \in PendingTrades :
             LET after == StatsOf(Append(History, p))
                 d == IF anSymbol = Null \/ {p.symbol} = anSymbol THEN 1 ELSE 0
             IN  /\ after.totalTrades = ShownStats.totalTrades + d
                 /\ after.buyTrades =
                      ShownStats.buyTrades + (IF p.side = "BUY" THEN d ELSE 0)
                 /\ after.sellTrades =
                      ShownStats.sellTrades + (IF p.side = "SELL" THEN d ELSE 0)
                 /\ after.fillRate =
                      IF Cardinality(WorkingIdx) + d = 0 THEN Num(0)
                      ELSE Num(RoundHalfUp(1000 * Cardinality(FilledIdx),
                                           Cardinality(WorkingIdx) + d))

\* a filtered working set with a PENDING buy and a FILLED sell
C13_Witness ==
    /\ Rendered
    /\ anSymbol # Null
    /\ \E i \in WorkingIdx : History[i].status = "PENDING" /\ History[i].side = "BUY"
    /\ \E i \in WorkingIdx : History[i].status = "FILLED" /\ History[i].side = "SELL"
    /\ ShownStats.buyTrades = 1
    /\ ShownStats.totalTrades = 2

\* C14: totalQuantity is the sum of exec_qty over the FILLED records only: a
\* PENDING record adds nothing, whatever its exec_qty.
C14_TotalQuantityFilledOnly ==
    Rendered =>
        /\ ShownStats.totalQuantity = Num(10000 * SumIdx(FilledIdx, "exec_qty"))
        /\ \A p \in PendingTrades :
             StatsOf(Append(History, p)).totalQuantity = ShownStats.totalQuantity

\* a PENDING record with an exec_qty of 3 next to a FILLED one of 2
C14_Witness ==
    /\ Rendered
    /\ \E i \in WorkingIdx : History[i].status = "PENDING" /\ History[i].exec_qty = Num(3)
    /\ \E i \in WorkingIdx : History[i].status = "FILLED"
    /\ ShownStats.totalQuantity = Num(20000)

Min(a, b) == IF a < b THEN a ELSE b

\* C15: the trend series has min(20, number of FILLED records of the working
\* set) entries, each of them a FILLED record of the working set: PENDING
\* records are removed before the window of 20 is taken.
C15_TrendFilledOnly ==
    Rendered =>
        /\ Len(Shown.data) = Min(TrendWindow, Cardinality(FilledIdx))
        /\ Len(Shown.labels) = Min(TrendWindow, Cardinality(FilledIdx))
        /\ \A k \in DOMAIN Shown.labels :
             \E i \in FilledIdx :
                /\ History[i].time = Shown.labels[k]
                /\ OrZero(History[i].slippage_bps) = Shown.data[k]

\* 20 or more FILLED records with a PENDING record among the last 20 records
C15_Witness ==
    /\ Rendered
    /\ Cardinality(FilledIdx) >= TrendWindow
    /\ \E i \in WorkingIdx : i > Len(History) - TrendWindow /\ History[i].status = "PENDING"
    /\ Len(Shown.data) = TrendWindow

\* C16: with more than 20 FILLED records, in whatever order the server sent
\* the history, the series is the 20 FILLED records with the latest times,
\* oldest first; labels and data are those records in that order.
C16_TrendLatestOldestFirst ==
    (Rendered /\ Cardinality(FilledIdx) > TrendWindow) =>
        LET times == { History[i].time : i \in FilledIdx }
        IN  /\ \A k \in 1..(Len(Shown.labels) - 1) : Shown.labels[k] < Shown.labels[k + 1]
            /\ \A k \in DOMAIN Shown.labels :
                 /\ Shown.labels[k] \in times
                 /\ Cardinality({ x \in times : x > Shown.labels[k] }) < TrendWindow
            /\ \A k \in DOMAIN Shown.labels :
                 \E i \in FilledIdx :
                    /\ History[i].time = Shown.labels[k]
                    /\ OrZero(History[i].slippage_bps) = Shown.data[k]

----------------------------------------------------------------------------
(* Analytics fetches, checked under SpecAnalytics                           *)

\* C18: the order-history slot always holds a sequence, never null: a 200
\* from GET /me/orders with a null body stores the empty sequence, a failed
\* fetch leaves the previous sequence, and the render that follows computes
\* a fillRate of '0' without throwing.
C18_HistoryAlwaysSequence ==
    [][ /\ trades' # Null
        /\ (\E err \in Failures : FetchAllTradesReject(err)) =>
              /\ trades' = trades
              /\ Shown'.screen # "TypeError"
        /\ FetchAllTradesResolve(Null) =>
              /\ trades' = {<<>>}
              /\ Shown'.screen # "TypeError"
              /\ Shown'.stats # {}
              /\ \A x \in Shown'.stats : x.fillRate = Num(0)
      ]_vars

\* C19: a 200 from GET /me/analytics with a null or absent body ends in the
\* empty state: stats null, the error slot as it was (null when nothing
\* failed), isLoading false; the empty result is not recorded as a failure.
C19_EmptyAnalyticsIsNotAFailure ==
    [][ (FetchAnalyticsResolve("null") \/ FetchAnalyticsResolve("absent")) =>
              /\ stats' = Null
              /\ error' = error
              /\ isLoading' = FALSE
      ]_vars

IsNumber(x) == x.t = "number"

\* C20: when at least one of the two fetches of the mount has failed and both
\* have completed, in either order, the error slot is non-null and every
\* derived metric is a defined number.
C20_PartialFailureShown ==
    (anInflight = {} /\ anFailed # {}) =>
        /\ error # Null
        /\ Shown.screen # "TypeError"
        /\ Shown.stats # {}
        /\ \A x \in Shown.stats :
              /\ x.totalTrades \in Nat
              /\ x.buyTrades \in Nat
              /\ x.sellTrades \in Nat
              /\ IsNumber(x.fillRate)
              /\ IsNumber(x.totalQuantity)
              /\ IsNumber(x.avgSlippage)

----------------------------------------------------------------------------
(* Order-book levels, checked under SpecBook                                *)

ShownBook == CHOOSE v \in bookView : TRUE

TheBook == SideOf(book)

SideEmpty(x) == x = Null \/ Len(SideOf(x)) = 0

AllSizesZeroOrMissing(b) ==
    /\ \A i \in DOMAIN SideOf(b.bids) : SizeOrZero(SideOf(b.bids)[i]) = 0
    /\ \A i \in DOMAIN SideOf(b.asks) : SizeOrZero(SideOf(b.asks)[i]) = 0

\* C21: a book with an empty side is classified incomplete and no width is
\* computed; a book whose level sizes are all zero or missing has a scaling
\* denominator that is not positive and every width is 0; no width is ever
\* the result of a division by zero.
C21_DegenerateBookWidths ==
    bookView # Null =>
        /\ (SideEmpty(TheBook.bids) \/ SideEmpty(TheBook.asks)) =>
              /\ ShownBook.screen = "incomplete"
              /\ ShownBook.bidWidths = {} /\ ShownBook.askWidths = {}
        /\ (ShownBook.screen = "levels" /\ AllSizesZeroOrMissing(TheBook)) =>
              /\ \A m \in ShownBook.maxSize : ~Positive(m)
              /\ \A w \in ShownBook.bidWidths \cup ShownBook.askWidths :
                    \A i \in DOMAIN w : w[i] = Num(0)
        /\ \A w \in ShownBook.bidWidths \cup ShownBook.askWidths :
              \A i \in DOMAIN w : w[i].t = "number"
        /\ \A m \in ShownBook.maxSize : m # Num(0)

\* a book with both sides present whose sizes are all zero or missing
C21_Witness ==
    /\ bookView # Null
    /\ ShownBook.screen = "levels"
    /\ AllSizesZeroOrMissing(TheBook)
    /\ \E i \in DOMAIN SideOf(TheBook.bids) : SideOf(TheBook.bids)[i] = Undefined
    /\ ShownBook.maxSize = {NegInfinity}

\* a book with an empty bid side has been rendered as well
C21_WitnessEmptySide ==
    /\ bookView # Null
    /\ TheBook.bids = {<<>>}
    /\ TheBook.asks # Null /\ Len(SideOf(TheBook.asks)) > 0
    /\ ShownBook.screen = "incomplete"

----------------------------------------------------------------------------
(* Dashboard summary poller, checked under Spec                             *)

\* C22: a failed GET /me/stats changes no slot of the store (dashboardStats,
\* error, isLoading keep their values) and leaves the 30 s timer running:
\* with Dashboard mounted the next tick issues a GET /me/stats again.
C22_FailedStatsTickIsSilent ==
    /\ [][ FetchDashboardStatsReject =>
             /\ UNCHANGED <<dashboardStats, error, isLoading, lastOrder, trades, stats>>
             /\ statsTimer' = statsTimer ]_vars
    /\ [](page = "dashboard" => statsTimer)
    /\ []((page = "dashboard" /\ statsInflight < MaxStats) => ENABLED StatsTick)

\* the fetch of the mount has failed (a success would have filled
\* dashboardStats), nothing is in flight and the next tick can fire
C22_Witness ==
    /\ page = "dashboard"
    /\ dashboardStats = Null
    /\ statsInflight = 0
    /\ statsTimer
    /\ error = Null /\ ~isLoading
    /\ ENABLED StatsTick

----------------------------------------------------------------------------
(* Shared slots of the store, checked under SpecNav                         *)

\* a step of the order-history or aggregate-stats fetch: its start in the mount
\* effect of Analytics, or the handling of its response
AnalyticsFetchStep ==
    \/ GoAnalytics
    \/ \E body \in OrdersBodies : FetchAllTradesResolve(body)
    \/ \E err \in Failures : FetchAllTradesReject(err)
    \/ \E body \in AnalyticsBodies : FetchAnalyticsResolve(body)
    \/ \E err \in Failures : FetchAnalyticsReject(err)

\* the loading or error indication in the store is the one the order
\* submission pipeline has put there
SubmissionIndication ==
    \/ posts # {} /\ isLoading
    \/ submitOutcome = "rejected" /\ error # Null

\* C23: no slot is written by two components: a step of the analytics fetches
\* never writes the loading or error slot that the order submission pipeline
\* writes, so it cannot overwrite or clear the pipeline's indication.
C23_NoSharedSlotWrites ==
    [][ (SubmissionIndication /\ AnalyticsFetchStep) =>
            UNCHANGED <<isLoading, error>> ]_vars

----------------------------------------------------------------------------
(* Timers of Dashboard, checked under SpecMount                             *)

\* a tick of the 60 s order-book timer or of the 30 s stats timer
TimerTick == StatsTick \/ \E t \in timers : IntervalTick(t)

\* C24: once Dashboard (and with it the order-book view) is unmounted its
\* timers are cancelled: no handle is live, no tick fires and no request is
\* issued by a timer.
C24_NoTimerOutlivesItsConsumer ==
    /\ [](page # "dashboard" => (timers = {} /\ ~statsTimer))
    /\ [](page # "dashboard" => ~ENABLED TimerTick)
    /\ [][ (page # "dashboard" /\ page' # "dashboard") =>
              (reqSeq' = reqSeq /\ statsInflight' <= statsInflight) ]_vars

\* Dashboard has ticked, has been left for Analytics, and a response to a
\* request of Analytics has been handled since
C24_Witness ==
    /\ page = "analytics"
    /\ navCount = 1
    /\ reqSeq > 1
    /\ timers = {}
    /\ ~statsTimer
    /\ anInflight # {"orders", "analytics"}

----------------------------------------------------------------------------
(* Venue client, checked under SpecAuth                                     *)

\* C25: a request sent through apiClient carries "Bearer <token>" exactly when
\* the session holds a token at the moment it is sent, and that token is the
\* session's; it carries no Authorization header otherwise (so none after a
\* logout), and sending a request never writes the credential.
C25_BearerIffTokenPresent ==
    /\ [](\A i \in DOMAIN sent :
            /\ sent[i].session = Null <=> sent[i].Authorization = Null
            /\ \A t \in sent[i].session :
                  sent[i].Authorization = {[scheme |-> "Bearer", credentials |-> t]})
    /\ [](lsToken = authToken)
    /\ [][ (\E url \in Urls : ApiClientRequest(url)) =>
              UNCHANGED <<lsToken, authToken>> ]_vars

\* requests were sent under a first token, after the logout, and under the
\* token of a later login
C25_Witness ==
    /\ Len(sent) = 3
    /\ sent[1].Authorization = {[scheme |-> "Bearer", credentials |-> "t1"]}
    /\ sent[2].Authorization = Null
    /\ sent[3].Authorization = Null
    /\ page = "login"

----------------------------------------------------------------------------
(* Order-book cache of the OrderBook component, checked under Spec          *)

\* C26: the order-book cache is never not-loading while a fetch it issued is
\* still awaited, and once the most recently issued fetch has been answered
\* successfully no step puts the cache in error unless a new fetch is issued.
C26_OrderBookCacheStates ==
    /\ [](inflight # {} => obLoading)
    /\ [][ (obHandled.ok /\ obHandled.id = reqSeq /\ reqSeq' = reqSeq)
              => obError' = "" ]_vars

----------------------------------------------------------------------------
(* Price handed to the trade form, checked under Spec                       *)

\* C27: a non-zero currentPrice is the mid of a snapshot fetched for the
\* selected symbol: the price was pushed by a response to a fetch for the
\* symbol now selected, so after a switch the price of the previous symbol
\* is not in use.
C27_PriceBelongsToSelectedSymbol ==
    currentPrice # 0 =>
        /\ obHandled.ok
        /\ obHandled.symbol = selectedSymbol
        /\ \E o \in orderBook : o.symbol = selectedSymbol /\ o.mid = currentPrice

----------------------------------------------------------------------------
(* Shared loading flag of the trading store, checked under SpecAnalytics    *)

\* C28: the store's isLoading is true exactly when at least one of the
\* requests that set it (POST /trade/, GET /me/orders, GET /me/analytics) is
\* still awaited; in particular the completion of the first analytics fetch
\* leaves it true while the second is in flight.
C28_LoadingIffRequestOutstanding ==
    isLoading <=> (anInflight # {} \/ posts # {})

----------------------------------------------------------------------------
(* Last confirmed order and error slot, checked under SpecTrade             *)

\* C29: a POST /trade/ that fails leaves lastOrder as it was; a submission
\* that starts a POST clears error and leaves lastOrder as it was; and a
\* failure after an earlier success leaves the store holding both the earlier
\* order and the new error.
C29_FailureKeepsLastOrder ==
    /\ [][ (\E p \in posts, err \in Failures : SubmitTradeReject(p, err))
              => /\ lastOrder' = lastOrder
                 /\ error' # Null
                 /\ lastOrder # Null => lastOrder' # Null ]_vars
    /\ [][ (HandleSubmit /\ postCount' = postCount + 1)
              => (error' = Null /\ lastOrder' = lastOrder) ]_vars

\* an order was confirmed, then a later submission failed: both are held
C29_Witness ==
    /\ submitOutcome = "rejected"
    /\ lastOrder # Null
    /\ error # Null
    /\ postCount = 2

----------------------------------------------------------------------------
(* Submissions across page changes, checked under SpecNav                   *)

\* C30: at most one POST /trade/ is awaited at any time, also when the user
\* leaves for Analytics while a submission is awaited and comes back before
\* it is answered.
C30_OneSubmissionOutstanding == Cardinality(posts) <= 1

====
